---------------------------- MODULE Spec2Model ----------------------------
(***************************************************************************)
(* Model of the exponential (positional, mixed-radix) codec of datatiles:  *)
(*   datatiles/encoding/exponential.py                                     *)
(*     encode, decode               -- scalar codec over Python integers   *)
(*     ExponentialEncoder           -- streaming encoder over numpy arrays *)
(*     ExponentialDecoder           -- streaming decoder (a generator)     *)
(*                                                                         *)
(* An array is a non-empty sequence of integers; its shape is its length   *)
(* (the tests use 1-D arrays).  The encoder's array has the unsigned dtype *)
(* given to the constructor; the model instantiates it with DtypeBits      *)
(* bits, so that wrap-around is reachable with small layers.               *)
(***************************************************************************)
EXTENDS Integers, Sequences, FiniteSets, TLC

\* ------------------------------------------------------------ bounds
MaxLayers == 3      \* most successful add() calls on the encoder
MaxRuns == 2        \* most decode() calls on one decoder instance
DtypeBits == 8      \* width of the dtype given to ExponentialEncoder
MaxCombined == 12   \* largest pixel of a combined array given directly to a decoder
MaxLen == 4         \* longest list given to the scalar encode()
MaxValue == 3       \* largest value in a list given to encode()
MaxBase == 3        \* largest base given to the scalar codec
MaxCalls == 3       \* most add() calls, rejected ones included, in the object-level runs
MaxReads == 2       \* most reads of encoder.values in the object-level runs

Bases == {2, 16}                    \* bases of the streaming encoder
Shapes == {1, 2}                    \* array shapes (lengths)
DecoderBases == {2, 3}              \* bases of a decoder built on a given array
ScalarBases == 0 .. MaxBase         \* includes the invalid bases 0 and 1

\* The encoder's _encoded (and a result slot) before it holds anything.
None == <<>>

\* ------------------------------------------------------------ arithmetic
RECURSIVE Pow(_, _)
\* Python's base ** i on integers, i >= 0.
Pow(b, i) == IF i = 0 THEN 1 ELSE b * Pow(b, i - 1)

\* Largest value + 1 of the unsigned dtype.
Modulus == Pow(2, DtypeBits)

\* x / f where f > 0 divides x, as both decoders use it (x is `encoded`
\* minus its remainder modulo f).  The quotient is an integer; true division
\* returns it as a float64, which holds it exactly while x < 2^53.  Every
\* integer of this model is far below that, so the float carries the exact
\* quotient; arrays of a 64-bit dtype holding values of 2^53 and more are
\* beyond the model.
TrueDiv(x, f) == x \div f

Shape(arr) == Len(arr)

\* arr.astype(dtype) for an unsigned dtype: an integral value is kept, wrapped
\* modulo 2^bits.
AsType(arr) == [p \in DOMAIN arr |-> arr[p] % Modulus]


\* Elementwise helpers of numpy arrays.
ArrScale(arr, k) == [p \in DOMAIN arr |-> arr[p] * k]
ArrMod(arr, f) == [p \in DOMAIN arr |-> arr[p] % f]
ArrSub(a, b) == [p \in DOMAIN a |-> a[p] - b[p]]
ArrTrueDiv(arr, f) == [p \in DOMAIN arr |-> TrueDiv(arr[p], f)]

Reverse(s) == [k \in 1 .. Len(s) |-> s[Len(s) + 1 - k]]

RECURSIVE MaxOf(_)
\* Python's max() over a non-empty list.
MaxOf(s) ==
    IF Len(s) = 1 THEN s[1]
    ELSE LET m == MaxOf(Tail(s)) IN IF s[1] > m THEN s[1] ELSE m

\* ------------------------------------------------------------ scalar codec
\* An argument given as `values`: None, a bare int, or a list (maybe empty).
PyNone == [kind |-> "None", items |-> <<>>]
PyInt(v) == [kind |-> "int", items |-> <<v>>]
PyList(s) == [kind |-> "list", items |-> s]

\* isinstance(values, collections.Iterable)
IsIterable(values) == values.kind = "list"

\* Outcomes of a call: a returned value or a raised ValueError.
Ok(v) == [kind |-> "ok", value |-> v, msg |-> ""]
ValueError(m) == [kind |-> "ValueError", value |-> 0, msg |-> m]
NoCall == [kind |-> "none", value |-> 0, msg |-> ""]

MsgNotIterable == "values must be an iterable"
MsgEmpty == "values must be non-empty"
MsgBase == "base must be larger than 1"
MsgTooLarge == "base must be larger than the max value"
MsgShape == "all arrays must be the same shape to encode"

\* Mutant of BaseInvalid: the comparison written as base < 1.
BaseInvalidStrict(base) == base < 1

\* The guard in front of the invalid-base error.
BaseInvalid(base) == base <= 1

\* The guard in front of the value-too-large error.
BaseTooSmall(items, base) == MaxOf(items) > base

RECURSIVE EncodeLoopLinear(_, _, _, _)
\* Mutant of EncodeLoop: base * i written for base ** i.
EncodeLoopLinear(items, base, i, encoded) ==
    IF i >= Len(items) THEN encoded
    ELSE EncodeLoopLinear(items, base, i + 1, encoded + items[i + 1] * base * i)

RECURSIVE EncodeLoop(_, _, _, _)
\* for i, value in enumerate(values): encoded += value * (base ** i)
\* (i is 0-based; items is 1-based).
EncodeLoop(items, base, i, encoded) ==
    IF i >= Len(items) THEN encoded
    ELSE EncodeLoop(items, base, i + 1, encoded + items[i + 1] * Pow(base, i))

\* encode(values, base)
encode(values, base) ==
    IF ~IsIterable(values) THEN ValueError(MsgNotIterable)
    ELSE IF Len(values.items) = 0 THEN ValueError(MsgEmpty)
    ELSE IF BaseInvalid(base) THEN ValueError(MsgBase)
    ELSE IF BaseTooSmall(values.items, base) THEN ValueError(MsgTooLarge)
    ELSE Ok(EncodeLoop(values.items, base, 0, 0))

\* One pass of decode's loop body for i > 0: the decoded value and the
\* remainder that replaces `encoded`.
ScalarStep(encoded, base, i) ==
    LET factor == Pow(base, i)
        remainder == encoded % factor
    IN  [decoded |-> TrueDiv(encoded - remainder, factor), encoded |-> remainder]

RECURSIVE DecodeLoop(_, _, _, _)
\* for i in range(size - 1, -1, -1): ... values.append(decoded)
DecodeLoop(encoded, base, i, values) ==
    IF i < 0 THEN values
    ELSE IF i = 0 THEN DecodeLoop(encoded, base, i - 1, Append(values, encoded))
    ELSE LET st == ScalarStep(encoded, base, i)
         IN  DecodeLoop(st.encoded, base, i - 1, Append(values, st.decoded))

\* Mutant of decode: values.reverse() left out.
decodeUnreversed(encoded, base, size) == DecodeLoop(encoded, base, size - 1, <<>>)

\* decode(encoded, base, size): the loop, then values.reverse()
decode(encoded, base, size) == Reverse(DecodeLoop(encoded, base, size - 1, <<>>))

\* ------------------------------------------------------------ encoding pipeline
\* The default of encode's `base` parameter.
DefaultBase == 10

\* encode_tifs: base = max(max_values) + 1
SizingBase(max_values) == MaxOf(max_values) + 1

\* encode_tifs: max_encoded_value = exponential_encode(max_values) + 1.  The
\* call passes no base, so encode runs with its default; an error it raises
\* propagates.
MaxEncodedValue(max_values) ==
    LET r == encode(PyList(max_values), DefaultBase)
    IN  IF r.kind = "ok" THEN Ok(r.value + 1) ELSE r

\* ------------------------------------------------------------ streaming encoder
\* ExponentialEncoder.__init__
EncoderInit(base) == [base |-> base, encoded |-> None, index |-> 0]

\* Mutant of ShapeMismatch: only an array smaller than the combined one is rejected.
ShapeSmaller(arr, encoded) == Shape(arr) < Shape(encoded)

\* arr.shape != self._encoded.shape
ShapeMismatch(arr, encoded) == Shape(arr) # Shape(encoded)

\* Mutant of Weight: the index incremented before it is used.
WeightNextIndex(base, index) == Pow(base, index + 1)

\* base ** self._index
Weight(base, index) == Pow(base, index)

\* self._encoded += arr * (self._base ** self._index): the product is
\* added in place, so the sum is cast back to the encoder's dtype.
Accumulate(encoded, arr, base, index) ==
    AsType([p \in DOMAIN encoded |-> encoded[p] + ArrScale(arr, Weight(base, index))[p]])

\* Mutant of EncoderAdd: _index incremented before the shape check.
EncoderAddCountsRejected(self, arr) ==
    IF self.index = 0
    THEN [self |-> [self EXCEPT !.encoded = AsType(arr), !.index = 1], raised |-> ""]
    ELSE IF ShapeMismatch(arr, self.encoded)
    THEN [self |-> [self EXCEPT !.index = self.index + 1], raised |-> MsgShape]
    ELSE [self |-> [self EXCEPT !.encoded = Accumulate(self.encoded, arr, self.base, self.index),
                                !.index = self.index + 1],
          raised |-> ""]

\* ExponentialEncoder.add(arr): the encoder after the call and what the
\* call raised ("" when it returned).
EncoderAdd(self, arr) ==
    IF self.index = 0
    THEN [self |-> [self EXCEPT !.encoded = AsType(arr), !.index = 1], raised |-> ""]
    ELSE IF ShapeMismatch(arr, self.encoded)
    THEN [self |-> self, raised |-> MsgShape]
    ELSE [self |-> [self EXCEPT !.encoded = Accumulate(self.encoded, arr, self.base, self.index),
                                !.index = self.index + 1],
          raised |-> ""]

\* ExponentialEncoder.values: a copy of the combined array.
EncoderValues(self) == self.encoded

\* ------------------------------------------------------------ streaming decoder
\* ExponentialDecoder.__init__
DecoderInit(encoded, size, base) == [encoded |-> encoded, size |-> size, base |-> base]

\* Mutant of GenIndex: the loop written as range(size, 0, -1).
GenIndexFromSize(self, pos) == self.size - pos

\* The range a decode() generator iterates: size-1 down to 0, so the
\* generator that has yielded `pos` items is at index size-1-pos.
GenIndex(self, pos) == self.size - 1 - pos

\* Mutant of DecodeStep: self._encoded = remaining left out.
DecodeStepNoStore(encoded, base, index) ==
    IF index = 0
    THEN [decoded |-> encoded, encoded |-> encoded]
    ELSE LET factor == Pow(base, index)
             remaining == ArrMod(encoded, factor)
         IN  [decoded |-> AsType(ArrTrueDiv(ArrSub(encoded, remaining), factor)),
              encoded |-> encoded]

\* Mutant of DecodeStep: the remainder taken modulo base, not base ** index.
DecodeStepModBase(encoded, base, index) ==
    IF index = 0
    THEN [decoded |-> encoded, encoded |-> encoded]
    ELSE LET factor == Pow(base, index)
             remaining == ArrMod(encoded, base)
         IN  [decoded |-> AsType(ArrTrueDiv(ArrSub(encoded, remaining), factor)),
              encoded |-> remaining]

\* One iteration of decode()'s loop at `index`: the yielded array and the
\* decoder's _encoded after it.
DecodeStep(encoded, base, index) ==
    IF index = 0
    THEN [decoded |-> encoded, encoded |-> encoded]
    ELSE LET factor == Pow(base, index)
             remaining == ArrMod(encoded, factor)
         IN  [decoded |-> AsType(ArrTrueDiv(ArrSub(encoded, remaining), factor)),
              encoded |-> remaining]

\* ------------------------------------------------------------ array objects
\* numpy arrays are mutable objects.  An object is a position of `heap`
\* and its content is the sequence stored there; 0 stands for None.
Deref(h, ref) == IF ref = 0 THEN None ELSE h[ref]

\* The identity of an array object created now.
NewObject(h) == Len(h) + 1

\* The heap after `content` is written into object `ref`, which is created
\* when it is new.
Store(h, ref, content) ==
    IF ref = NewObject(h) THEN Append(h, content) ELSE [h EXCEPT ![ref] = content]

\* ExponentialEncoder.__init__, with _encoded held as an object identity.
RefEncoderInit(base) == [EncoderInit(base) EXCEPT !.encoded = 0]

\* Mutant of FirstAddObject: self._encoded = arr, the caller's own object.
FirstAddAlias(h, arr_ref) == arr_ref

\* add(), first call: arr.copy().astype(dtype) is a new object.
FirstAddObject(h, arr_ref) == NewObject(h)

\* Mutant of ValuesObject: return self._encoded, the live buffer.
ValuesLive(h, self) == self.encoded

\* values: self._encoded.copy() is a new object.
ValuesObject(h, self) == NewObject(h)

\* decode(): remaining = decoded % factor is a new object, to which
\* self._encoded is rebound.
RemainingObject(h, self) == NewObject(h)

\* add(arr) on objects: the first call stores a new object, later calls
\* update the object self._encoded in place (+=), a rejected call touches
\* nothing.
RefEncoderAdd(h, self, arr_ref) ==
    LET r == EncoderAdd([self EXCEPT !.encoded = Deref(h, self.encoded)], h[arr_ref])
        target == IF self.index = 0 THEN FirstAddObject(h, arr_ref) ELSE self.encoded
    IN  IF r.raised # ""
        THEN [heap |-> h, self |-> [self EXCEPT !.index = r.self.index], raised |-> r.raised]
        ELSE [heap |-> Store(h, target, r.self.encoded),
              self |-> [self EXCEPT !.encoded = target, !.index = r.self.index],
              raised |-> ""]


\* ------------------------------------------------------------ state
VARIABLES
    encoder,    \* the ExponentialEncoder instance: base, _encoded, _index
    layers,     \* the arrays add() has accepted so far, in order
    call,       \* the last add() call: its argument, the encoder before it, what it raised
    decoder,    \* the ExponentialDecoder instance: _encoded, _size, _base
    given,      \* the array the decoder was constructed with
    src,        \* the layers that array encodes (empty when it was given directly)
    gen,        \* the current decode() generator: its state and how many items it has yielded
    drawn,      \* the arrays the current generator has yielded, in draw order
    runs,       \* decode() calls made on the decoder
    yielded,    \* arrays yielded by the decoder over all its decode() calls
    s_values,   \* scalar codec: the `values` argument
    s_base,     \* scalar codec: the `base` argument
    s_enc,      \* scalar codec: outcome of encode(s_values, s_base)
    s_dec,      \* scalar codec: size given to decode and the list it returned
    sizing,     \* encode_tifs: the base and max_encoded_value computed from s_values
    heap,       \* object level: the array objects; an object's identity is its position
    r_encoder,  \* object level: the encoder; _encoded is an object identity, 0 for None
    r_calls,    \* object level: every add() call: the object passed, its content then,
                \*   the encoder before the call, what the call raised
    r_reads,    \* object level: every read of values: the object returned, its content
                \*   then, the add() calls made before it, whether the caller wrote into it
    r_decoder,  \* object level: the decoder; _encoded is an object identity
    r_gen       \* object level: the object the decoder was built on, its content then,
                \*   and how many items the decode() generator has yielded (-1: not built)

vars == <<encoder, layers, call, decoder, given, src, gen, drawn, runs, yielded,
          s_values, s_base, s_enc, s_dec, sizing,
          heap, r_encoder, r_calls, r_reads, r_decoder, r_gen>>
encVars == <<encoder, layers, call>>
decVars == <<decoder, given, src, gen, drawn, runs, yielded>>
scalarVars == <<s_values, s_base, s_enc, s_dec, sizing>>
refVars == <<heap, r_encoder, r_calls, r_reads, r_decoder, r_gen>>

\* ------------------------------------------------------------ inputs
\* All arrays of a shape in Shapes with pixels in `vals`.
Arrays(vals) == UNION {[1 .. n -> vals] : n \in Shapes}

\* Pixels fed to an encoder of base b: digits of the base, and b itself
\* (add() does not validate the range).
PixelVals(b) == {0, b - 1, b}

\* Arrays passed to add() in the object-level runs: two shapes, digits of
\* every base.
RefArrays == {<<1>>, <<0, 1>>, <<1, 1>>}

\* Lists of length 0 .. MaxLen over 0 .. MaxValue.
ValueLists == UNION {[1 .. n -> 0 .. MaxValue] : n \in 0 .. MaxLen}

\* The `values` arguments given to encode().
ValueInputs == {PyNone, PyInt(4)} \cup {PyList(l) : l \in ValueLists}

NoEncoder == [base |-> 0, encoded |-> None, index |-> 0]
NoDecoder == [encoded |-> None, size |-> 0, base |-> 0]
NoAdd == [arr |-> None, index |-> 0, encoded |-> None, raised |-> ""]
NoGen == [state |-> "none", pos |-> 0]
NoDecode == [size |-> 0, values |-> <<>>]
NoSizing == [base |-> 0, max_encoded_value |-> NoCall]

EncIdle == encoder = NoEncoder /\ layers = <<>> /\ call = NoAdd
DecIdle ==
    /\ decoder = NoDecoder /\ given = None /\ src = <<>>
    /\ gen = NoGen /\ drawn = <<>> /\ runs = 0 /\ yielded = 0
ScalarIdle ==
    /\ s_values = PyNone /\ s_base = 0 /\ s_enc = NoCall /\ s_dec = NoDecode
    /\ sizing = NoSizing
NoRefEncoder == [base |-> 0, encoded |-> 0, index |-> 0]
NoRefDecoder == [encoded |-> 0, size |-> 0, base |-> 0]
NoGiven == [ref |-> 0, snap |-> None, pos |-> -1]
RefIdle ==
    /\ heap = <<>> /\ r_encoder = NoRefEncoder /\ r_calls = <<>> /\ r_reads = <<>>
    /\ r_decoder = NoRefDecoder /\ r_gen = NoGiven

\* ------------------------------------------------------------ streaming actions
\* encoder.add(arr)
Add ==
    /\ encoder # NoEncoder
    /\ encoder.index < MaxLayers
    /\ \E arr \in Arrays(PixelVals(encoder.base)) :
         LET r == EncoderAdd(encoder, arr)
         IN  /\ encoder' = r.self
             /\ call' = [arr |-> arr, index |-> encoder.index,
                         encoded |-> encoder.encoded, raised |-> r.raised]
             /\ layers' = IF r.raised = "" THEN Append(layers, arr) ELSE layers
    /\ UNCHANGED <<decVars, scalarVars, refVars>>

\* decoder = ExponentialDecoder(encoded=encoder.values, size=<layers added>, base=base)
\* encoder.values needs one add (before it _encoded is None).  A new decoder
\* replaces the current one once the encoder holds layers the current one
\* was not built on, as the tests build one after each add.
NewDecoder ==
    /\ encoder.index >= 1
    /\ src # layers
    /\ decoder' = DecoderInit(EncoderValues(encoder), encoder.index, encoder.base)
    /\ given' = EncoderValues(encoder)
    /\ src' = layers
    /\ gen' = NoGen /\ drawn' = <<>> /\ runs' = 0 /\ yielded' = 0
    /\ UNCHANGED <<encVars, scalarVars, refVars>>

\* g = decoder.decode() on a decoder that has not been decoded yet: a new
\* generator; its body has not started.
StartDecode ==
    /\ decoder # NoDecoder
    /\ runs = 0
    /\ gen' = [state |-> "suspended", pos |-> 0]
    /\ drawn' = <<>>
    /\ runs' = 1
    /\ UNCHANGED <<decoder, given, src, yielded, encVars, scalarVars, refVars>>

\* g = decoder.decode() called again on the same instance, whatever the
\* earlier generator has yielded: another new generator over range(_size).
Restart ==
    /\ decoder # NoDecoder
    /\ runs >= 1
    /\ runs < MaxRuns
    /\ gen' = [state |-> "suspended", pos |-> 0]
    /\ drawn' = <<>>
    /\ runs' = runs + 1
    /\ UNCHANGED <<decoder, given, src, yielded, encVars, scalarVars, refVars>>

\* next(g) while the loop has an index left: one iteration, up to its yield.
DecodeNext ==
    /\ gen.state = "suspended"
    /\ gen.pos < decoder.size
    /\ LET st == DecodeStep(decoder.encoded, decoder.base, GenIndex(decoder, gen.pos))
       IN  /\ decoder' = [decoder EXCEPT !.encoded = st.encoded]
           /\ drawn' = Append(drawn, st.decoded)
    /\ gen' = [gen EXCEPT !.pos = gen.pos + 1]
    /\ yielded' = yielded + 1
    /\ UNCHANGED <<given, src, runs, encVars, scalarVars, refVars>>

\* next(g) after the last index: the loop ends, the generator returns.
DecodeStop ==
    /\ gen.state = "suspended"
    /\ gen.pos = decoder.size
    /\ gen' = [gen EXCEPT !.state = "finished"]
    /\ UNCHANGED <<decoder, given, src, drawn, runs, yielded, encVars, scalarVars, refVars>>

\* ------------------------------------------------------------ scalar actions
\* encode(s_values, s_base)
CallEncode ==
    /\ s_enc = NoCall
    /\ s_values \in ValueInputs
    /\ s_enc' = encode(s_values, s_base)
    /\ UNCHANGED <<s_values, s_base, s_dec, sizing, encVars, decVars, refVars>>

\* decode(<the encoded integer>, s_base, size)
CallDecode ==
    /\ s_enc.kind = "ok"
    /\ s_dec = NoDecode
    /\ \E size \in 1 .. MaxLen :
         s_dec' = [size |-> size, values |-> decode(s_enc.value, s_base, size)]
    /\ UNCHANGED <<s_values, s_base, s_enc, sizing, encVars, decVars, refVars>>

\* encode_tifs, "Calculating encoding parameters": s_values is max_values, the
\* list of per-layer cardinalities (one per source, so non-empty).
SizeEncoding ==
    /\ sizing = NoSizing
    /\ s_values.kind = "list"
    /\ Len(s_values.items) >= 1
    /\ sizing' = [base |-> SizingBase(s_values.items),
                  max_encoded_value |-> MaxEncodedValue(s_values.items)]
    /\ UNCHANGED <<s_values, s_base, s_enc, s_dec, encVars, decVars, refVars>>

\* ------------------------------------------------------------ object-level actions
\* encoder.add(arr) with an array object of the caller.  The encoder is fed
\* before the decoder is built.
AddObject ==
    /\ r_gen = NoGiven
    /\ Len(r_calls) < MaxCalls
    /\ \E arr \in RefArrays :
         LET h == Append(heap, arr)
             ref == Len(h)
             r == RefEncoderAdd(h, r_encoder, ref)
         IN  /\ heap' = r.heap
             /\ r_encoder' = r.self
             /\ r_calls' = Append(r_calls,
                    [ref |-> ref, snap |-> arr, raised |-> r.raised,
                     pre |-> [index |-> r_encoder.index, encoded |-> r_encoder.encoded,
                              content |-> Deref(heap, r_encoder.encoded)]])
    /\ UNCHANGED <<r_reads, r_decoder, r_gen, encVars, decVars, scalarVars>>

\* view = encoder.values
ReadValues ==
    /\ r_gen = NoGiven
    /\ r_encoder.index >= 1
    /\ Len(r_reads) < MaxReads
    /\ LET ref == ValuesObject(heap, r_encoder)
           content == EncoderValues([r_encoder EXCEPT !.encoded = heap[r_encoder.encoded]])
       IN  /\ heap' = Store(heap, ref, content)
           /\ r_reads' = Append(r_reads,
                  [ref |-> ref, snap |-> content, adds |-> Len(r_calls),
                   written |-> FALSE])
    /\ UNCHANGED <<r_encoder, r_calls, r_decoder, r_gen, encVars, decVars, scalarVars>>

\* The caller modifies the array it has just got from values, before it
\* calls the encoder again: view[0] += 1.
CallerWrite ==
    /\ r_reads # <<>>
    /\ LET i == Len(r_reads)
       IN  /\ ~r_reads[i].written
           /\ r_reads[i].adds = Len(r_calls)
           /\ r_reads[i].ref # r_gen.ref
           /\ heap' = [heap EXCEPT ![r_reads[i].ref][1] = (@ + 1) % Modulus]
           /\ r_reads' = [r_reads EXCEPT ![i].written = TRUE]
    /\ UNCHANGED <<r_encoder, r_calls, r_decoder, r_gen, encVars, decVars, scalarVars>>

\* decoder = ExponentialDecoder(view, size=encoder._index, base=encoder.base)
\* on an array read from values.
NewDecoderOnView ==
    /\ r_gen = NoGiven
    /\ \E i \in DOMAIN r_reads :
         LET ref == r_reads[i].ref
         IN  /\ r_decoder' = [DecoderInit(heap[ref], r_encoder.index, r_encoder.base)
                                EXCEPT !.encoded = ref]
             /\ r_gen' = [ref |-> ref, snap |-> heap[ref], pos |-> 0]
    /\ UNCHANGED <<heap, r_encoder, r_calls, r_reads, encVars, decVars, scalarVars>>

\* One iteration of the decode() generator on objects: at index 0 it
\* yields the object self._encoded itself, otherwise self._encoded is
\* rebound to the new object `remaining`.
DecodeObject ==
    /\ r_gen.pos >= 0
    /\ r_gen.pos < r_decoder.size
    /\ LET index == GenIndex(r_decoder, r_gen.pos)
           step == DecodeStep(heap[r_decoder.encoded], r_decoder.base, index)
           target == IF index = 0 THEN r_decoder.encoded
                     ELSE RemainingObject(heap, r_decoder)
       IN  /\ heap' = Store(heap, target, step.encoded)
           /\ r_decoder' = [r_decoder EXCEPT !.encoded = target]
           /\ r_gen' = [r_gen EXCEPT !.pos = @ + 1]
    /\ UNCHANGED <<r_encoder, r_calls, r_reads, encVars, decVars, scalarVars>>


\* ------------------------------------------------------------ specifications
\* Layers are streamed into one encoder; a decoder is built on its values and
\* drained once, as a round trip does.
Init ==
    /\ \E b \in Bases : encoder = EncoderInit(b)
    /\ layers = <<>> /\ call = NoAdd
    /\ DecIdle /\ ScalarIdle /\ RefIdle

Next == Add \/ NewDecoder \/ StartDecode \/ DecodeNext \/ DecodeStop

Spec == Init /\ [][Next]_vars

\* A decoder built directly on a combined array, with any size and base, and
\* decoded any number of times.
InitDecoder ==
    /\ EncIdle /\ ScalarIdle /\ RefIdle
    /\ \E a \in Arrays(0 .. MaxCombined), n \in 1 .. MaxLayers, b \in DecoderBases :
         /\ decoder = DecoderInit(a, n, b)
         /\ given = a
    /\ src = <<>> /\ gen = NoGen /\ drawn = <<>> /\ runs = 0 /\ yielded = 0

NextDecoder == StartDecode \/ DecodeNext \/ DecodeStop \/ Restart

SpecDecoder == InitDecoder /\ [][NextDecoder]_vars

\* The scalar codec applied to bounded inputs.
InitScalar ==
    /\ EncIdle /\ DecIdle /\ RefIdle
    /\ s_values \in ValueInputs
    /\ s_base \in ScalarBases
    /\ s_enc = NoCall /\ s_dec = NoDecode /\ sizing = NoSizing

NextScalar == CallEncode \/ CallDecode \/ SizeEncoding

SpecScalar == InitScalar /\ [][NextScalar]_vars

\* An encoder, the arrays its caller passes in and reads back, and a decoder
\* built on one of them, followed as objects.
InitObjects ==
    /\ EncIdle /\ DecIdle /\ ScalarIdle
    /\ heap = <<>>
    /\ \E b \in Bases : r_encoder = RefEncoderInit(b)
    /\ r_calls = <<>> /\ r_reads = <<>>
    /\ r_decoder = NoRefDecoder /\ r_gen = NoGiven

NextObjects == AddObject \/ ReadValues \/ CallerWrite \/ NewDecoderOnView \/ DecodeObject

SpecObjects == InitObjects /\ [][NextObjects]_vars


\* ------------------------------------------------------------ properties
\* Every pixel of every layer is a digit of the base.
InRange(ls, b) == \A i \in DOMAIN ls : \A p \in DOMAIN ls[i] : 0 <= ls[i][p] /\ ls[i][p] < b

\* b^n - 1 is representable in the encoder's dtype.
Fits(b, n) == Pow(b, n) - 1 < Modulus

RECURSIVE PositionalSum(_, _)
\* v_0 + b*(v_1 + b*(v_2 + ...)): the positional value of a digit list.
PositionalSum(items, b) ==
    IF items = <<>> THEN 0 ELSE Head(items) + b * PositionalSum(Tail(items), b)

\* The positional value at pixel p of a list of layers.
LayerSum(ls, b, p) == PositionalSum([i \in DOMAIN ls |-> ls[i][p]], b)

C3_PositionalValue ==
    s_enc.kind = "ok"
    => /\ s_enc.value = PositionalSum(s_values.items, s_base)
       /\ Len(s_values.items) = 1 => s_enc.value = s_values.items[1]
       /\ Len(s_values.items) = 2
            => s_enc.value = s_values.items[1] + s_values.items[2] * s_base

C3_Witness ==
    /\ s_enc.kind = "ok"
    /\ s_values = PyList(<<1, 2, 0, 2>>)
    /\ s_base = 3
    /\ s_enc.value = 61

C7_YieldsAtMostSize == decoder # NoDecoder => yielded <= decoder.size

\* C8: shape guard.  An add on an encoder that already holds a layer, with an
\* array of another shape than the combined array, raises the shape error;
\* the first add on a fresh encoder never raises.
C8_ShapeGuard ==
    call # NoAdd
    => /\ (call.index >= 1 /\ Shape(call.arr) # Shape(call.encoded))
            => call.raised = MsgShape
       /\ call.index = 0 => call.raised = ""

C8_Witness ==
    /\ call.index = 2
    /\ Shape(call.arr) = 2
    /\ Shape(call.encoded) = 1
    /\ call.raised = MsgShape

\* C9: input and base guards of encode.  None, a non-iterable and an empty
\* list raise the invalid-input error whatever the base; a non-empty list
\* with base <= 1 raises the invalid-base error; neither returns a value.
C9_InputAndBaseGuards ==
    s_enc # NoCall
    => /\ (s_values.kind # "list" \/ Len(s_values.items) = 0)
            => /\ s_enc.kind = "ValueError"
               /\ s_enc.msg \in {MsgNotIterable, MsgEmpty}
       /\ (s_values.kind = "list" /\ Len(s_values.items) > 0 /\ s_base <= 1)
            => s_enc = ValueError(MsgBase)

C9_Witness ==
    /\ s_values = PyList(<<2, 3>>)
    /\ s_base = 1
    /\ s_enc = ValueError(MsgBase)

\* C10: base must be larger than the max value.  For base > 1 and a
\* non-empty list, encode raises the value-too-large error whenever some
\* value is >= base, and returns only when every value is < base.
C10_BaseAboveMax ==
    (/\ s_enc # NoCall
     /\ s_values.kind = "list"
     /\ Len(s_values.items) > 0
     /\ s_base > 1)
    => /\ (\E i \in DOMAIN s_values.items : s_values.items[i] >= s_base)
            => s_enc = ValueError(MsgTooLarge)
       /\ s_enc.kind = "ok"
            => \A i \in DOMAIN s_values.items : s_values.items[i] < s_base

\* C12: overflow-free sizing.  For the base and max_encoded_value that
\* encode_tifs computes from n >= 1 per-layer cardinalities, the value the
\* target representation is selected from is at least base^n - 1 (stated for
\* layers that each hold at least one value).
C12_SizingCoversMax ==
    (/\ sizing # NoSizing
     /\ \A i \in DOMAIN s_values.items : s_values.items[i] >= 1)
    => /\ sizing.max_encoded_value.kind = "ok"
       /\ sizing.max_encoded_value.value >= Pow(sizing.base, Len(s_values.items)) - 1

\* The add() calls that returned, and the combined array they should have
\* left in an encoder of base b: the positional sum of their arguments.
Accepted(calls) == SelectSeq(calls, LAMBDA c : c.raised = "")
ExpectedCombined(calls, b) ==
    LET ls == [i \in DOMAIN Accepted(calls) |-> Accepted(calls)[i].snap]
    IN  [p \in DOMAIN ls[1] |-> LayerSum(ls, b, p) % Modulus]

\* C11: values is a defensive copy.  Every array read from values equals
\* the positional sum of the layers added before the read, whatever the
\* caller has written into arrays read earlier; two reads with no add()
\* call between them returned equal arrays; and the encoder's combined array
\* is the positional sum of all added layers, so no later add() is affected
\* by such a write.
C11_ValuesIsCopy ==
    /\ \A i \in DOMAIN r_reads :
         r_reads[i].snap = ExpectedCombined(SubSeq(r_calls, 1, r_reads[i].adds), r_encoder.base)
    /\ \A i, j \in DOMAIN r_reads :
         r_reads[i].adds = r_reads[j].adds => r_reads[i].snap = r_reads[j].snap
    /\ r_encoder.index >= 1 =>
         heap[r_encoder.encoded] = ExpectedCombined(r_calls, r_encoder.base)

\* The caller wrote into the first array it read, then read values again
\* with no add() call in between, and an add() call succeeded after the
\* write.
C11_Witness ==
    /\ Len(r_reads) = 2
    /\ r_reads[1].written
    /\ r_reads[2].adds = r_reads[1].adds
    /\ Len(r_calls) > r_reads[1].adds
    /\ r_calls[Len(r_calls)].raised = ""

\* The encoder as add() call i found it, and as it left it: the state the
\* next call found, or the present state after the last call.
BeforeCall(i) == r_calls[i].pre
AfterCall(i) ==
    IF i < Len(r_calls) THEN r_calls[i + 1].pre
    ELSE [index |-> r_encoder.index, encoded |-> r_encoder.encoded,
          content |-> Deref(heap, r_encoder.encoded)]

\* C13: a rejected add() has no effect.  An add() call that raised the shape
\* error left the combined array (the object and its content) and the layer
\* count as it found them; and an add() call that returned found a layer
\* count k equal to the number of add() calls that had returned before it,
\* and, for k >= 1, added its array times base^k to the combined array.
C13_RejectedAddNoEffect ==
    \A i \in DOMAIN r_calls :
        IF r_calls[i].raised # ""
        THEN AfterCall(i) = BeforeCall(i)
        ELSE LET k == BeforeCall(i).index
             IN  /\ k = Len(Accepted(SubSeq(r_calls, 1, i - 1)))
                 /\ AfterCall(i).index = k + 1
                 /\ k >= 1 =>
                      AfterCall(i).content =
                          [p \in DOMAIN r_calls[i].snap |->
                              (BeforeCall(i).content[p]
                               + r_calls[i].snap[p] * Pow(r_encoder.base, k)) % Modulus]

\* An accepted layer, a rejected one, then an accepted one.
C13_Witness ==
    /\ Len(r_calls) = 3
    /\ r_calls[1].raised = ""
    /\ r_calls[2].raised = MsgShape
    /\ r_calls[3].raised = ""
    /\ r_encoder.index = 2

\* C14: caller-owned arrays are never modified.  Every array object passed
\* to add(), the first one included, and the array object the decoder was
\* constructed with, still hold the content they had when they were passed,
\* after any add(), values and decode() steps.
C14_CallerArraysUntouched ==
    /\ \A i \in DOMAIN r_calls : heap[r_calls[i].ref] = r_calls[i].snap
    /\ r_gen.ref # 0 => heap[r_gen.ref] = r_gen.snap

\* At least two layers were added and a decoder of as many layers has been
\* drained.
C14_Witness ==
    /\ Len(Accepted(r_calls)) >= 2
    /\ r_decoder.size >= 2
    /\ r_gen.pos = r_decoder.size

=============================================================================
